---- MODULE Spec2Model ----
(***************************************************************************)
(* Model of the 3D-scanner firmware (src/firmware/i2c.c, Arduino sketch    *)
(* part starting at line 357; the VL53L0X build of the same sketch is       *)
(* src/unnamed/part_010).  The firmware is one polling loop(): it reads one *)
(* command line from the serial port, executes it to completion and prints *)
(* response lines.  State = the sketch's globals, the two direction pins,   *)
(* the serial output of the last step and the net displacement of the Z    *)
(* axis.  int is 16 bits wide (ATmega328P).                                *)
(***************************************************************************)
EXTENDS Integers, Sequences, FiniteSets, TLC

\* ---------------------------------------------------------------- bounds
\* SCAN_STEP is explored while scan_current_step is below this (or wraps)
MaxScanStep == 5
\* SCAN_STEP is explored while scan_current_layer is below this
MaxLayer == 3
\* a command that moves the Z axis is explored while |z_pos| is at most this
MaxZ == 1
\* ROTATE / ROTATE_CCW are explored while |current_theta_step| is at most this
MaxTheta == 4
\* lines that may wait in the serial receive buffer
MaxRx == 2
\* longest data block copied to the EEPROM
MaxBlock == 2
\* SCAN_STEP commands counted after one START
MaxRunSteps == 11
\* largest theta_steps and steps_per_rev sent with CONFIG to a continuous scan
MaxPoints == 6
MaxStepsPerRev == 9
\* longest block given to i2c_write_register_multi / i2c_read_register_multi
MaxI2cLength == 2

\* ------------------------------------------------------ program constants
DEFAULT_STEPS_PER_REV == 1600
DEFAULT_THETA_STEPS_PER_REV == 200
DEFAULT_Z_STEPS_PER_MM == 200
DEFAULT_Z_TRAVEL_MM == 200
DEFAULT_Z_STEPS_PER_LAYER == 400
DEFAULT_SCAN_DELAY_MS == 50
MIN_THETA_STEPS_PER_REV == 4
MAX_THETA_STEPS_PER_REV == 3600
DATA_DELIMITER == 9999
\* float literals, in tenths: center_distance_cm = 15.0, centerDist = 10.3
InitCenterDistance == 150
DefaultCenterDist == 103
\* performScanStep: zLayers = 1000 when the computed layer count is <= 0
ContinuousLayers == 1000
\* readTF_Luna / readVL53L0X limits
MaxDistance == 1200
MinSignalStrength == 50
\* vl53l0x.c: default of vl53l0x_io_timeout, cap of the status poll, and the
\* out of range value
DefaultIoTimeout == 500
PollLimit == 100
OutOfRange == 8190

LOW == "LOW"
HIGH == "HIGH"

\* ------------------------------------------------------- int arithmetic
\* 16-bit two's complement wrap of an int result
Wrap16(x) == ((x + 32768) % 65536) - 32768

Abs(x) == IF x < 0 THEN -x ELSE x

\* C division and remainder truncate toward zero
CDiv(a, b) ==
    IF (a >= 0) = (b > 0) THEN Abs(a) \div Abs(b) ELSE -(Abs(a) \div Abs(b))

CMod(a, b) == a - b * CDiv(a, b)

\* (z_travel_mm * z_steps_per_mm) / z_steps_per_layer in int arithmetic
LayerCount(travel, per_mm, per_layer) ==
    CDiv(Wrap16(travel * per_mm), per_layer)

\* nearest integer of n / d (d > 0), halves away from zero: Serial.print(float, k)
RoundDiv(n, d) ==
    IF n >= 0 THEN (2 * n + d) \div (2 * d) ELSE -((2 * (-n) + d) \div (2 * d))

\* (s % theta) * 360.0 / theta printed with one decimal, in tenths of a degree
AngleTenths(s, theta) == RoundDiv(CMod(s, theta) * 3600, theta)

\* ---------------------------------------------------------- serial lines
\* a printed line: a text prefix followed by comma separated numeric fields
Txt(s) == [t |-> s, f |-> <<>>]
TxtNum(s, nums) == [t |-> s, f |-> nums]
Csv(nums) == [t |-> "", f |-> nums]

IsCsv(l) == l.t = ""
IsDelimiter(l) == IsCsv(l) /\ l.f = <<DATA_DELIMITER>>
IsDataLine(l) == IsCsv(l) /\ Len(l.f) > 1

\* ------------------------------------------------------- distance sensor
\* the two builds of the sketch: TF-Luna (i2c.c) and VL53L0X (part_010)
Builds == {"TF_LUNA", "VL53L0X"}

\* what the sensor hands to one read: whether a complete frame / a sample
\* arrived in time, the raw 16-bit distance and the signal strength
RawReads ==
    { [ok |-> FALSE, dist |-> 1200, flux |-> 50],
      [ok |-> TRUE, dist |-> 0, flux |-> 50],
      [ok |-> TRUE, dist |-> 1200, flux |-> 49],
      [ok |-> TRUE, dist |-> 1200, flux |-> 50],
      [ok |-> TRUE, dist |-> 1201, flux |-> 50] }

\* readTF_Luna without the signal strength test
readTF_LunaAnyStrength(raw) ==
    IF ~raw.ok THEN 0
    ELSE IF raw.dist = 0 \/ raw.dist > MaxDistance
         THEN 0
         ELSE raw.dist * 100

\* readTF_Luna (UART build): distance in cm as a float, here in hundredths
readTF_Luna(raw) ==
    IF ~raw.ok THEN 0
    ELSE IF raw.flux < MinSignalStrength \/ raw.dist = 0 \/ raw.dist > MaxDistance
         THEN 0
         ELSE raw.dist * 100

\* readVL53L0X: millimetres / 10.0, here in hundredths of a cm
readVL53L0X(raw) ==
    IF ~raw.ok THEN 0
    ELSE IF raw.dist > MaxDistance \/ raw.dist = 0 THEN 0
         ELSE raw.dist * 10

readSensor(b, raw) == IF b = "TF_LUNA" THEN readTF_Luna(raw) ELSE readVL53L0X(raw)

\* ------------------------------------------------------- command lines
\* a comma separated field of a command line: a decimal number (v is the
\* number in tenths, "10.3" is 103), non-numeric text, or nothing
Num(v) == [k |-> "num", v |-> v]
Junk == [k |-> "junk", v |-> 0]
Empty == [k |-> "empty", v |-> 0]

\* the fields of whole numbers
Ints(ns) == [i \in 1..Len(ns) |-> Num(10 * ns[i])]

\* a command line: its name and the fields after the first comma
Command(name, args) == [name |-> name, args |-> args]

\* String::toInt(), assigned to an int: digits up to the first non-digit
toInt(tok) == IF tok.k = "num" THEN Wrap16(CDiv(tok.v, 10)) ELSE 0

\* String::toFloat(), in tenths
toFloat(tok) == IF tok.k = "num" THEN tok.v ELSE 0

VARIABLES
    scanning, paused, scan_direction_up, step_by_step_mode,
    current_theta_step, paused_layer, paused_step,
    scan_current_layer, scan_current_step,
    theta_steps_per_rev, z_steps_per_mm, z_travel_mm, z_steps_per_layer,
    scan_delay_ms, center_distance_cm, steps_per_rev,
    x_dir,
    build, pc, rs_layer, rs_step, rs_start_layer, rs_start_step,
    cmd, out, moved, track_z, z_pos,
    stopped, last_layer, delims,
    rx,
    eeprom, ee_source, ee_addr, ee_destination, ee_result, ee_pc,
    vl53l0x_io_timeout, vl53l0x_timeout_flag, vl_pc, vl_timeout, vl_failed,
    vl_ret,
    track_run, run_config, run_complete, n_steps, n_data, n_delims, n_x,
    i2c_fn, i2c_pc, i2c_i, i2c_length, i2c_bus, i2c_ret

scanState == <<scanning, paused, scan_direction_up, step_by_step_mode,
               current_theta_step, paused_layer, paused_step,
               scan_current_layer, scan_current_step>>

config == <<theta_steps_per_rev, z_travel_mm, z_steps_per_mm,
            z_steps_per_layer, scan_delay_ms, center_distance_cm,
            steps_per_rev>>

\* X_DIR_PIN.  Z_DIR_PIN is written before every rotateMotorZ call, so the
\* direction of a Z move is the value written by the caller (see ZDelta)
pins == <<x_dir>>

\* position of loop() inside RESUME and the loop variables of resumeScan
resume == <<pc, rs_layer, rs_step, rs_start_layer, rs_start_step>>

\* observers of the serial stream: STOP was the last of START/STOP/RESUME;
\* layer of the last data line since SCAN_START / SCAN_RESUMED (-1: none) and
\* the number of delimiter lines printed after it
hist == <<stopped, last_layer, delims>>

\* observer of the Z axis: net steps above the power-up position, kept only
\* in behaviours that start with track_z
zaxis == <<track_z, z_pos>>

\* observer of a step-by-step run, kept only in behaviours that start with
\* track_run: the configuration START found (<<>> before the first START
\* and once a CONFIG has changed it), the SCAN_STEP commands since that
\* START, the data lines and delimiter lines since that START or the last
\* RESUME, and whether a SCAN_STEP since
\* that START was answered SCAN_COMPLETE; n_x sums the X motor steps of the
\* layer being scanned (since START, the start of RESUME or the end of the
\* last layer)
run == <<track_run, run_config, run_complete, n_steps, n_data, n_delims, n_x>>

\* the state and the output of the sketch, without the receive buffer
device == <<scanState, config, pins, build, resume, cmd, out, moved, zaxis,
            hist, run>>

\* the EEPROM helpers of the vendored GRBL code: the EEPROM cells, the block
\* last written and its address, the buffer and the result of the last
\* checked read, and what was done last.  The sketch never calls them
eemem == <<eeprom, ee_source, ee_addr, ee_destination, ee_result, ee_pc>>

\* the VL53L0X driver: its two statics, the position inside
\* vl53l0x_readRangeContinuousMillimeters with its poll counter, whether an
\* I2C transaction of the call was not acknowledged, and the value returned
vl53 == <<vl53l0x_io_timeout, vl53l0x_timeout_flag, vl_pc, vl_timeout,
          vl_failed, vl_ret>>

\* the I2C register helpers: the helper being run and the position inside
\* it, its loop variable i and its argument length, the bus actions of the
\* call so far, and the value returned
twi == <<i2c_fn, i2c_pc, i2c_i, i2c_length, i2c_bus, i2c_ret>>

\* the helpers of firmware/: the sketch never calls them
grbl == <<eemem, vl53, twi>>

vars == <<scanState, config, pins, build, resume, cmd, out, moved, zaxis, hist,
          rx, grbl, run>>

NoMove == [x |-> 0, z |-> 0]

\* the EEPROM cells the helpers are run on
Cells == 0..(MaxBlock + 1)

\* the VL53L0X driver before the first call
InitVl53 ==
    /\ vl53l0x_io_timeout = DefaultIoTimeout
    /\ vl53l0x_timeout_flag = 0
    /\ vl_pc = "idle"
    /\ vl_timeout = 0
    /\ vl_failed = FALSE
    /\ vl_ret = 0

\* the I2C helpers before the first call
InitTwi ==
    /\ i2c_fn = "none"
    /\ i2c_pc = "idle"
    /\ i2c_i = 0
    /\ i2c_length = 0
    /\ i2c_bus = <<>>
    /\ i2c_ret = 0

\* an erased EEPROM and no helper call so far
InitGrbl ==
    /\ InitVl53
    /\ InitTwi
    /\ eeprom = [a \in Cells |-> 255]
    /\ ee_source = <<>>
    /\ ee_addr = 0
    /\ ee_destination = <<>>
    /\ ee_result = 0
    /\ ee_pc = "none"

\* the globals of the sketch after setup()
InitSketch ==
    /\ scanning = FALSE
    /\ paused = FALSE
    /\ scan_direction_up = TRUE
    /\ step_by_step_mode = FALSE
    /\ current_theta_step = 0
    /\ paused_layer = 0
    /\ paused_step = 0
    /\ scan_current_layer = 0
    /\ scan_current_step = 0
    /\ theta_steps_per_rev = DEFAULT_THETA_STEPS_PER_REV
    /\ z_steps_per_mm = DEFAULT_Z_STEPS_PER_MM
    /\ z_travel_mm = DEFAULT_Z_TRAVEL_MM
    /\ z_steps_per_layer = DEFAULT_Z_STEPS_PER_LAYER
    /\ scan_delay_ms = DEFAULT_SCAN_DELAY_MS
    /\ center_distance_cm = InitCenterDistance
    /\ steps_per_rev = DEFAULT_STEPS_PER_REV
    /\ x_dir = LOW
    /\ pc = "idle"
    /\ rs_layer = 0
    /\ rs_step = 0
    /\ rs_start_layer = 0
    /\ rs_start_step = 0
    /\ cmd = Command("", <<>>)
    /\ out = <<>>
    /\ moved = NoMove
    /\ z_pos = 0
    /\ stopped = FALSE
    /\ last_layer = -1
    /\ delims = 0
    /\ rx = <<>>
    /\ run_config = <<>>
    /\ run_complete = FALSE
    /\ n_steps = 0
    /\ n_data = 0
    /\ n_delims = 0
    /\ n_x = 0

\* the state after setup()
InitState == InitSketch /\ InitGrbl

\* the TF-Luna sketch after setup()
Init ==
    InitState /\ build = "TF_LUNA" /\ track_z = FALSE /\ track_run = FALSE

\* the same, with the Z axis observed
InitZ ==
    InitState /\ build = "TF_LUNA" /\ track_z = TRUE /\ track_run = FALSE

\* the same, with the step-by-step run observed
InitRun ==
    InitState /\ build = "TF_LUNA" /\ track_z = FALSE /\ track_run = TRUE

\* either build of the sketch after setup()
InitBuilds ==
    InitState /\ build \in Builds /\ track_z = FALSE /\ track_run = FALSE

\* loop(): Serial.available() > 0 and readStringUntil('\n').  rx holds the
\* lines received and not yet read, oldest first; the line read is its head
\* or, when nothing waits, the line that arrives now (chosen by the handler)
LoopReads ==
    /\ pc = "idle"
    /\ IF rx = <<>>
       THEN UNCHANGED rx
       ELSE /\ cmd' = Head(rx)
            /\ rx' = Tail(rx)
    /\ UNCHANGED <<grbl, track_run>>
    /\ IF track_run
       THEN TRUE
       ELSE UNCHANGED <<run_config, run_complete, n_steps, n_data, n_delims,
                        n_x>>

\* the Z observer after a command that moved the axis by dz steps
ZAfter(dz) == IF track_z THEN z_pos + dz ELSE z_pos

\* exploration bound on Z moving commands
ZInBound == Abs(z_pos) <= MaxZ

\* rotateMotorZ(steps) with Z_DIR_PIN = dir: signed displacement (LOW = up)
ZDelta(dir, steps) ==
    IF steps <= 0 THEN 0 ELSE IF dir = LOW THEN steps ELSE -steps

\* rotateMotorX(steps) with X_DIR_PIN = dir: signed rotation (LOW = clockwise)
XDelta(dir, steps) ==
    IF steps <= 0 THEN 0 ELSE IF dir = LOW THEN steps ELSE -steps

\* START that forgets to reset the rotation position and the saved step
StartKeepsPosition ==
    /\ LoopReads
    /\ scanning' = TRUE
    /\ paused' = FALSE
    /\ paused_layer' = 0
    /\ scan_current_layer' = 0
    /\ scan_current_step' = 0
    /\ scan_direction_up' = TRUE
    /\ step_by_step_mode' = TRUE
    /\ cmd' = Command("START", <<>>)
    /\ out' = <<Txt("SCAN_START")>>
    /\ moved' = NoMove
    /\ stopped' = FALSE
    /\ last_layer' = -1
    /\ delims' = 0
    /\ UNCHANGED <<current_theta_step, paused_step, config, pins, build,
                   resume, zaxis>>

\* loop(): command == "START" || command == "START_UP"
Start ==
    /\ LoopReads
    /\ scanning' = TRUE
    /\ paused' = FALSE
    /\ paused_layer' = 0
    /\ paused_step' = 0
    /\ scan_current_layer' = 0
    /\ scan_current_step' = 0
    /\ scan_direction_up' = TRUE
    /\ step_by_step_mode' = TRUE
    /\ current_theta_step' = 0
    /\ cmd' = Command("START", <<>>)
    /\ out' = <<Txt("SCAN_START")>>
    /\ moved' = NoMove
    /\ stopped' = FALSE
    /\ last_layer' = -1
    /\ delims' = 0
    /\ UNCHANGED <<config, pins, build, resume, zaxis>>

\* loop(): command == "START_DOWN"
StartDown ==
    /\ LoopReads
    /\ scanning' = TRUE
    /\ paused' = FALSE
    /\ paused_layer' = 0
    /\ paused_step' = 0
    /\ scan_current_layer' = 0
    /\ scan_current_step' = 0
    /\ scan_direction_up' = FALSE
    /\ step_by_step_mode' = TRUE
    /\ current_theta_step' = 0
    /\ cmd' = Command("START_DOWN", <<>>)
    /\ out' = <<Txt("SCAN_START")>>
    /\ moved' = NoMove
    /\ stopped' = FALSE
    /\ last_layer' = -1
    /\ delims' = 0
    /\ UNCHANGED <<config, pins, build, resume, zaxis>>

\* performScanStep: zLayers
StepLayers ==
    LET c == IF z_steps_per_layer > 0
             THEN LayerCount(z_travel_mm, z_steps_per_mm, z_steps_per_layer)
             ELSE 0
    IN  IF c <= 0 THEN ContinuousLayers ELSE c

\* the rotation test off by one
RotationDoneLate(step, theta) == step > theta

\* performScanStep: "completed one full rotation" test
RotationDone(step, theta) == step >= theta

\* the "all layers are done" test one layer late
LayersDoneLate(layer, zLayers) == layer > zLayers /\ layer > 0

\* performScanStep: "all layers are done" test on the incremented layer
LayersDone(layer, zLayers) == layer >= zLayers /\ layer > 0

\* a data line without the angle
DataLineNoAngle(layer, step, distance, angle) == Csv(<<layer, step, distance>>)

\* the data line printed for one point
DataLine(layer, step, distance, angle) == Csv(<<layer, step, distance, angle>>)

\* performScanStep: angle of the point, computed after scan_current_step++
StepAngle(step_after, theta) == AngleTenths(step_after, theta)

\* performScanStep's layer branch without the Serial.println(DATA_DELIMITER)
PerformScanStepLayerSilent ==
    LET layer == Wrap16(scan_current_layer + 1) IN
    /\ scan_current_step' = 0
    /\ scan_current_layer' = layer
    /\ IF LayersDone(layer, StepLayers)
       THEN /\ out' = <<Txt("SCAN_COMPLETE")>>
            /\ scanning' = FALSE
            /\ step_by_step_mode' = FALSE
            /\ moved' = NoMove
            /\ UNCHANGED <<z_pos, delims>>
       ELSE /\ ZInBound
            /\ LET dir == IF scan_direction_up THEN LOW ELSE HIGH
                   dz == IF z_steps_per_layer > 0
                         THEN ZDelta(dir, z_steps_per_layer) ELSE 0
               IN  /\ moved' = [x |-> 0, z |-> dz]
                   /\ z_pos' = ZAfter(dz)
            /\ out' = <<>>
            /\ UNCHANGED <<scanning, step_by_step_mode, delims>>
    /\ UNCHANGED <<paused, scan_direction_up, current_theta_step, paused_layer,
                   paused_step, x_dir, last_layer>>

\* performScanStep, branch scan_current_step >= theta_steps_per_rev
PerformScanStepLayer ==
    LET layer == Wrap16(scan_current_layer + 1) IN
    /\ scan_current_step' = 0
    /\ scan_current_layer' = layer
    /\ IF LayersDone(layer, StepLayers)
       THEN /\ out' = <<Txt("SCAN_COMPLETE")>>
            /\ scanning' = FALSE
            /\ step_by_step_mode' = FALSE
            /\ moved' = NoMove
            /\ UNCHANGED <<z_pos, delims>>
       ELSE /\ ZInBound
            /\ LET dir == IF scan_direction_up THEN LOW ELSE HIGH
                   dz == IF z_steps_per_layer > 0
                         THEN ZDelta(dir, z_steps_per_layer) ELSE 0
               IN  /\ moved' = [x |-> 0, z |-> dz]
                   /\ z_pos' = ZAfter(dz)
            /\ out' = <<Csv(<<DATA_DELIMITER>>)>>
            /\ delims' = IF delims < 2 THEN delims + 1 ELSE 2
            /\ UNCHANGED <<scanning, step_by_step_mode>>
    /\ UNCHANGED <<paused, scan_direction_up, current_theta_step, paused_layer,
                   paused_step, x_dir, last_layer>>

\* performScanStep, the measuring branch
PerformScanStepPoint(raw) ==
    LET step == Wrap16(scan_current_step + 1) IN
    /\ x_dir' = LOW
    /\ moved' = [x |-> XDelta(LOW, 1), z |-> 0]
    /\ scan_current_step' = step
    /\ current_theta_step' =
           CMod(Wrap16(current_theta_step + 1), theta_steps_per_rev)
    /\ out' = <<DataLine(scan_current_layer, Wrap16(step - 1),
                         readSensor(build, raw),
                         StepAngle(step, theta_steps_per_rev))>>
    /\ last_layer' = scan_current_layer
    /\ delims' = 0
    /\ UNCHANGED <<scanning, paused, scan_direction_up, step_by_step_mode,
                   paused_layer, paused_step, scan_current_layer, z_pos>>

\* performScanStep
PerformScanStep(raw) ==
    IF RotationDone(scan_current_step, theta_steps_per_rev)
    THEN PerformScanStepLayer
    ELSE PerformScanStepPoint(raw)

\* loop(): the guard of SCAN_STEP
StepRejected == ~scanning \/ ~step_by_step_mode

\* loop(): command == "SCAN_STEP", the sensor handing over one of raws
ScanStepOn(raws) ==
    /\ LoopReads
    /\ cmd' = Command("SCAN_STEP", <<>>)
    /\ IF StepRejected
       THEN /\ out' = <<Txt("ERROR: Not in step-by-step scan mode!")>>
            /\ moved' = NoMove
            /\ UNCHANGED <<scanState, pins, z_pos, last_layer, delims>>
       ELSE /\ scan_current_layer < MaxLayer
            /\ \/ scan_current_step < MaxScanStep
               \/ RotationDone(scan_current_step, theta_steps_per_rev)
            /\ \E raw \in raws : PerformScanStep(raw)
    /\ UNCHANGED <<config, build, resume, track_z, stopped>>

ScanStep == ScanStepOn(RawReads)

\* STOP that sets paused but leaves scanning as it is
StopKeepsScanning ==
    /\ LoopReads
    /\ cmd' = Command("STOP", <<>>)
    /\ paused' = TRUE
    /\ out' = <<Txt("SCAN_PAUSED")>>
    /\ moved' = NoMove
    /\ stopped' = TRUE
    /\ UNCHANGED <<scanning, scan_direction_up, step_by_step_mode,
                   current_theta_step, paused_layer, paused_step,
                   scan_current_layer, scan_current_step, config, pins, build,
                   resume, zaxis, last_layer, delims>>

\* loop(): command == "STOP"
Stop ==
    /\ LoopReads
    /\ cmd' = Command("STOP", <<>>)
    /\ paused' = TRUE
    /\ scanning' = FALSE
    /\ out' = <<Txt("SCAN_PAUSED")>>
    /\ moved' = NoMove
    /\ stopped' = TRUE
    /\ UNCHANGED <<scan_direction_up, step_by_step_mode, current_theta_step,
                   paused_layer, paused_step, scan_current_layer,
                   scan_current_step, config, pins, build, resume, zaxis,
                   last_layer, delims>>

\* ------------------------------------------------------------- CONFIG
\* values an uninitialised int of processConfigCommand's stack frame may hold
Garbage == {-1, 1}

\* processConfigCommand: intValues[0..4] after the parsing loop.  The loop
\* stops at the first field that is not followed by a comma; the elements
\* it did not reach are never written (g stands for what they hold)
ConfigInts(p, g) ==
    [i \in 1..5 |-> IF i <= Len(p) THEN toInt(p[i]) ELSE g[i]]

\* params after the loop: what follows the fifth comma, "" if there is none
ConfigRest(p) == IF Len(p) > 5 THEN SubSeq(p, 6, Len(p)) ELSE <<>>

\* params.length() > 0 for a string that splits into the fields ts
StrNonEmpty(ts) == ts # <<>> /\ ~(Len(ts) = 1 /\ ts[1].k = "empty")

\* processConfigCommand: centerDist
ConfigCenter(p) ==
    LET r == ConfigRest(p)
    IN  IF StrNonEmpty(r) THEN toFloat(r[1]) ELSE DefaultCenterDist

\* processConfigCommand: stepsPerRev
ConfigStepsPerRev(p) ==
    LET r == ConfigRest(p)
    IN  IF StrNonEmpty(r) /\ Len(r) > 1 /\ StrNonEmpty(Tail(r))
        THEN toInt(r[2])
        ELSE DEFAULT_STEPS_PER_REV

\* processConfigCommand: the three validation steps, in order
ConfigVerdict(iv, centerDist, stepsPerRev) ==
    IF iv[1] < MIN_THETA_STEPS_PER_REV \/ iv[1] > MAX_THETA_STEPS_PER_REV
    THEN "RANGE"
    ELSE IF iv[1] > stepsPerRev
    THEN "EXCEED"
    ELSE IF /\ iv[1] > 0 /\ iv[2] > 0 /\ iv[3] > 0 /\ iv[4] > 0 /\ iv[5] >= 0
            /\ centerDist > 0 /\ stepsPerRev > 0
    THEN "OK"
    ELSE "INVALID"

ConfigErrorTexts ==
    { "CONFIG_ERROR: theta_steps must be between",
      "CONFIG_ERROR: theta_steps cannot exceed steps_per_rev",
      "CONFIG_ERROR: Invalid values" }

IsConfigError(l) == l.t \in ConfigErrorTexts
IsConfigOk(l) == l.t = "CONFIG_OK:"

\* the assignments and the answer of processConfigCommand, with
\* theta_steps_per_rev stored before the values are validated
ConfigApplyEarly(verdict, iv, centerDist, stepsPerRev) ==
    /\ theta_steps_per_rev' = iv[1]
    /\ IF verdict = "OK"
       THEN /\ z_travel_mm' = iv[2]
            /\ z_steps_per_mm' = iv[3]
            /\ z_steps_per_layer' = iv[4]
            /\ scan_delay_ms' = iv[5]
            /\ center_distance_cm' = centerDist
            /\ steps_per_rev' = stepsPerRev
            /\ out' = <<TxtNum("CONFIG_OK:", <<iv[1], iv[2], iv[3], iv[4],
                                               iv[5], centerDist, stepsPerRev>>)>>
       ELSE /\ UNCHANGED <<z_travel_mm, z_steps_per_mm, z_steps_per_layer,
                           scan_delay_ms, center_distance_cm, steps_per_rev>>
            /\ out' = <<Txt("CONFIG_ERROR: Invalid values")>>

\* processConfigCommand: the assignments and the answer for a verdict
ConfigApply(verdict, iv, centerDist, stepsPerRev) ==
    IF verdict = "OK"
    THEN /\ theta_steps_per_rev' = iv[1]
         /\ z_travel_mm' = iv[2]
         /\ z_steps_per_mm' = iv[3]
         /\ z_steps_per_layer' = iv[4]
         /\ scan_delay_ms' = iv[5]
         /\ center_distance_cm' = centerDist
         /\ steps_per_rev' = stepsPerRev
         /\ out' = <<TxtNum("CONFIG_OK:", <<iv[1], iv[2], iv[3], iv[4], iv[5],
                                            centerDist, stepsPerRev>>)>>
    ELSE /\ UNCHANGED config
         /\ out' = IF verdict = "RANGE"
                   THEN <<TxtNum("CONFIG_ERROR: theta_steps must be between",
                                 <<MIN_THETA_STEPS_PER_REV,
                                   MAX_THETA_STEPS_PER_REV>>)>>
                   ELSE IF verdict = "EXCEED"
                   THEN <<TxtNum("CONFIG_ERROR: theta_steps cannot exceed steps_per_rev",
                                 <<iv[1], stepsPerRev>>)>>
                   ELSE <<Txt("CONFIG_ERROR: Invalid values")>>

\* processConfigCommand(command) for the fields p after "CONFIG,"
processConfigCommand(p, g) ==
    LET iv == ConfigInts(p, g)
        centerDist == ConfigCenter(p)
        stepsPerRev == ConfigStepsPerRev(p)
    IN  ConfigApply(ConfigVerdict(iv, centerDist, stepsPerRev),
                    iv, centerDist, stepsPerRev)

\* the CONFIG lines sent by the host
ConfigCmds ==
    { Ints(<<4, 2, 1, 1, 0>>) \o <<Num(103), Num(60)>>,
      Ints(<<5, 1, 1, 2, 0>>),
      Ints(<<3, 2, 1, 1, 0>>),
      Ints(<<5, 2, 1, 1, 0>>) \o <<Num(103), Num(40)>>,
      Ints(<<4, 2, 0, 1, 0>>),
      Ints(<<65540, 2, 1, 1, 0>>) \o <<Num(103), Num(60)>>,
      Ints(<<4>>) }

\* loop(): command.startsWith("CONFIG,"), the host sending one of cmds
ConfigOn(cmds) ==
    /\ LoopReads
    /\ \E p \in cmds :
         /\ cmd' = Command("CONFIG", p)
         /\ \E g \in [(Len(p) + 1)..5 -> Garbage] : processConfigCommand(p, g)
    /\ moved' = NoMove
    /\ UNCHANGED <<scanState, pins, build, resume, zaxis, hist>>

Config == ConfigOn(ConfigCmds)

\* -------------------------------------------------------- Z axis moves
\* moveToTop / returnToHome: totalZSteps
TotalZSteps == LayerCount(z_travel_mm, z_steps_per_mm, z_steps_per_layer)

\* the loop "for (i = 0; i < totalZSteps; i++) rotateMotorZ(z_steps_per_layer)"
\* run with Z_DIR_PIN = dir: signed displacement
TravelDelta(dir) ==
    IF TotalZSteps > 0 THEN TotalZSteps * ZDelta(dir, z_steps_per_layer) ELSE 0

\* moveToTop
moveToTopDelta == TravelDelta(LOW)

\* returnToHome (leaves Z_DIR_PIN LOW)
returnToHomeDelta == TravelDelta(HIGH)

\* loop(): command == "HOME"
Home ==
    /\ LoopReads
    /\ ZInBound
    /\ cmd' = Command("HOME", <<>>)
    /\ z_pos' = ZAfter(returnToHomeDelta)
    /\ moved' = [x |-> 0, z |-> returnToHomeDelta]
    /\ out' = <<Txt("HOME_COMPLETE")>>
    /\ UNCHANGED <<scanState, config, x_dir, build, resume, track_z, hist>>

\* loop(): command == "MOVE_TO_TOP"
MoveToTop ==
    /\ LoopReads
    /\ ZInBound
    /\ cmd' = Command("MOVE_TO_TOP", <<>>)
    /\ z_pos' = ZAfter(moveToTopDelta)
    /\ moved' = [x |-> 0, z |-> moveToTopDelta]
    /\ out' = <<Txt("Moving to top position..."), Txt("MOVE_TO_TOP_COMPLETE")>>
    /\ UNCHANGED <<scanState, config, x_dir, build, resume, track_z, hist>>

\* ------------------------------------------------------ sensor commands
\* loop(): command == "TEST", the sensor handing over one of raws
TestOn(raws) ==
    /\ LoopReads
    /\ cmd' = Command("TEST", <<>>)
    /\ \E raw \in raws :
         out' = <<TxtNum("Distance: ", <<readSensor(build, raw)>>)>>
    /\ moved' = NoMove
    /\ UNCHANGED <<scanState, config, pins, build, resume, zaxis, hist>>

Test == TestOn(RawReads)

\* loop(): command == "TEST_POINT", the sensor handing over one of raws
TestPointOn(raws) ==
    /\ LoopReads
    /\ cmd' = Command("TEST_POINT", <<>>)
    /\ \E raw \in raws :
         out' = <<TxtNum("TEST_POINT:",
                         <<AngleTenths(current_theta_step, theta_steps_per_rev),
                           readSensor(build, raw)>>)>>
    /\ moved' = NoMove
    /\ UNCHANGED <<scanState, config, pins, build, resume, zaxis, hist>>

TestPoint == TestPointOn(RawReads)

\* loop(): command == "READ_LIDAR", the sensor handing over one of raws
ReadLidarOn(raws) ==
    /\ LoopReads
    /\ cmd' = Command("READ_LIDAR", <<>>)
    /\ \E raw \in raws :
         out' = <<TxtNum("LIDAR_DISTANCE:", <<readSensor(build, raw)>>)>>
    /\ moved' = NoMove
    /\ UNCHANGED <<scanState, config, pins, build, resume, zaxis, hist>>

ReadLidar == ReadLidarOn(RawReads)

\* loop(): command == "GET_CONFIG"
GetConfig ==
    /\ LoopReads
    /\ cmd' = Command("GET_CONFIG", <<>>)
    /\ out' = <<TxtNum("CURRENT_CONFIG:",
                       <<theta_steps_per_rev, z_travel_mm, z_steps_per_mm,
                         z_steps_per_layer, scan_delay_ms, center_distance_cm,
                         steps_per_rev>>)>>
    /\ moved' = NoMove
    /\ UNCHANGED <<scanState, config, pins, build, resume, zaxis, hist>>

\* ------------------------------------------------------ manual rotation
\* the step counts sent with ROTATE, ROTATE_CCW, ROTATE_Z, ROTATE_Z_CCW
RotateArgs == {Num(10), Num(50), Junk}
RotateZArgs == {Num(10), Junk}

\* loop(): command.startsWith("ROTATE,")
Rotate ==
    /\ LoopReads
    /\ Abs(current_theta_step) <= MaxTheta
    /\ \E a \in RotateArgs :
         LET steps == toInt(a) IN
         /\ cmd' = Command("ROTATE", <<a>>)
         /\ IF steps > 0
            THEN /\ x_dir' = LOW
                 /\ moved' = [x |-> XDelta(LOW, steps), z |-> 0]
                 /\ current_theta_step' =
                        CMod(Wrap16(current_theta_step + steps),
                             theta_steps_per_rev)
                 /\ out' = <<TxtNum("ROTATED:", <<steps>>)>>
            ELSE /\ out' = <<Txt("ROTATE_ERROR: Invalid steps: ")>>
                 /\ moved' = NoMove
                 /\ UNCHANGED <<x_dir, current_theta_step>>
    /\ UNCHANGED <<scanning, paused, scan_direction_up, step_by_step_mode,
                   paused_layer, paused_step, scan_current_layer,
                   scan_current_step, config, build, resume, zaxis, hist>>

\* loop(): command.startsWith("ROTATE_CCW,")
RotateCcw ==
    /\ LoopReads
    /\ Abs(current_theta_step) <= MaxTheta
    /\ \E a \in RotateArgs :
         LET steps == toInt(a) IN
         /\ cmd' = Command("ROTATE_CCW", <<a>>)
         /\ IF steps > 0
            THEN /\ x_dir' = HIGH
                 /\ moved' = [x |-> XDelta(HIGH, steps), z |-> 0]
                 /\ current_theta_step' =
                        CMod(Wrap16(Wrap16(current_theta_step - steps)
                                    + theta_steps_per_rev),
                             theta_steps_per_rev)
                 /\ out' = <<TxtNum("ROTATED:", <<-steps>>)>>
            ELSE /\ out' = <<>>
                 /\ moved' = NoMove
                 /\ UNCHANGED <<x_dir, current_theta_step>>
    /\ UNCHANGED <<scanning, paused, scan_direction_up, step_by_step_mode,
                   paused_layer, paused_step, scan_current_layer,
                   scan_current_step, config, build, resume, zaxis, hist>>

\* loop(): command.startsWith("ROTATE_Z,")
RotateZ ==
    /\ LoopReads
    /\ ZInBound
    /\ \E a \in RotateZArgs :
         LET steps == toInt(a) IN
         /\ cmd' = Command("ROTATE_Z", <<a>>)
         /\ IF steps > 0
            THEN /\ moved' = [x |-> 0, z |-> ZDelta(LOW, steps)]
                 /\ z_pos' = ZAfter(ZDelta(LOW, steps))
                 /\ out' = <<TxtNum("ROTATED_Z:", <<steps>>)>>
            ELSE /\ out' = <<Txt("ROTATE_Z_ERROR: Invalid steps: ")>>
                 /\ moved' = NoMove
                 /\ UNCHANGED z_pos
    /\ UNCHANGED <<scanState, config, x_dir, build, resume, track_z, hist>>

\* loop(): command.startsWith("ROTATE_Z_CCW,")
RotateZCcw ==
    /\ LoopReads
    /\ ZInBound
    /\ \E a \in RotateZArgs :
         LET steps == toInt(a) IN
         /\ cmd' = Command("ROTATE_Z_CCW", <<a>>)
         /\ IF steps > 0
            THEN /\ moved' = [x |-> 0, z |-> ZDelta(HIGH, steps)]
                 /\ z_pos' = ZAfter(ZDelta(HIGH, steps))
                 /\ out' = <<TxtNum("ROTATED_Z:", <<-steps>>)>>
            ELSE /\ out' = <<>>
                 /\ moved' = NoMove
                 /\ UNCHANGED z_pos
    /\ UNCHANGED <<scanState, config, x_dir, build, resume, track_z, hist>>

\* ---------------------------------------------------------------- RESUME
\* resumeScan: zLayers (no fallback, no guard on z_steps_per_layer)
ResumeLayers == LayerCount(z_travel_mm, z_steps_per_mm, z_steps_per_layer)

\* steps_this_point without the distribution of the remainder
StepsThisPointEven(step) == CDiv(steps_per_rev, theta_steps_per_rev)

\* resumeScan: steps_this_point for the point `step`
StepsThisPoint(step) ==
    LET steps_per_point == CDiv(steps_per_rev, theta_steps_per_rev)
        remainder == CMod(steps_per_rev, theta_steps_per_rev)
    IN  IF step < remainder THEN Wrap16(steps_per_point + 1) ELSE steps_per_point

\* performScan: steps_this_point for the point `step`, at least 1
PerformScanStepsThisPoint(step) ==
    LET steps_per_point == CDiv(steps_per_rev, theta_steps_per_rev)
        remainder == CMod(steps_per_rev, theta_steps_per_rev)
        steps_this_point == IF step < remainder
                            THEN Wrap16(steps_per_point + 1)
                            ELSE steps_per_point
    IN  IF steps_this_point <= 0 THEN 1 ELSE steps_this_point

\* resumeScan: angle of the point `step`
ResumeAngle(step, theta) == AngleTenths(step, theta)

\* loop(): command == "RESUME", up to the first iteration of resumeScan's
\* layer loop: the flags, SCAN_RESUMED and, from position (0,0), moveToTop
Resume ==
    /\ LoopReads
    /\ cmd' = Command("RESUME", <<>>)
    /\ IF paused
       THEN /\ ZInBound
            /\ paused' = FALSE
            /\ scanning' = TRUE
            /\ rs_start_layer' = paused_layer
            /\ rs_start_step' = paused_step
            /\ rs_layer' = paused_layer
            /\ rs_step' = paused_step
            /\ pc' = "resumeScan"
            /\ stopped' = FALSE
            /\ last_layer' = -1
            /\ delims' = 0
            /\ IF paused_layer = 0 /\ paused_step = 0
               THEN /\ out' = <<Txt("SCAN_RESUMED"),
                                Txt("Resuming: Moving to top position...")>>
                    /\ moved' = [x |-> 0, z |-> moveToTopDelta]
                    /\ z_pos' = ZAfter(moveToTopDelta)
               ELSE /\ out' = <<Txt("SCAN_RESUMED")>>
                    /\ moved' = NoMove
                    /\ UNCHANGED z_pos
       ELSE /\ out' = <<>>
            /\ moved' = NoMove
            /\ UNCHANGED <<paused, scanning, resume, z_pos, hist>>
    /\ UNCHANGED <<scan_direction_up, step_by_step_mode, current_theta_step,
                   paused_layer, paused_step, scan_current_layer,
                   scan_current_step, config, x_dir, build, track_z>>

\* the inner loop of resumeScan with a poll of the serial port: a waiting
\* STOP is read and pauses the scan at this point
ResumePointPolls(raw) ==
    /\ rx # <<>>
    /\ Head(rx).name = "STOP"
    /\ rx' = Tail(rx)
    /\ paused' = TRUE
    /\ scanning' = FALSE
    /\ paused_layer' = rs_layer
    /\ paused_step' = rs_step
    /\ out' = <<Txt("SCAN_PAUSED")>>
    /\ moved' = NoMove
    /\ UNCHANGED <<grbl, pc, rs_layer, rs_step, current_theta_step,
                   last_layer, delims, z_pos>>

\* resumeScan, one point of the inner loop.  Nothing inside the loop reads
\* the serial port, so scanning and paused keep the values the loop
\* conditions found and none of the "if (!scanning || paused)" exits is taken
ResumePoint(raw) ==
    /\ moved' = [x |-> XDelta(x_dir, StepsThisPoint(rs_step)), z |-> 0]
    /\ current_theta_step' =
           CMod(Wrap16(current_theta_step + 1), theta_steps_per_rev)
    /\ out' = <<DataLine(rs_layer, rs_step, readSensor(build, raw),
                         ResumeAngle(rs_step, theta_steps_per_rev))>>
    /\ rs_step' = Wrap16(rs_step + 1)
    /\ last_layer' = rs_layer
    /\ delims' = 0
    /\ UNCHANGED <<rx, grbl, scanning, paused, paused_layer, paused_step, pc,
                   rs_layer, z_pos>>

\* resumeScan, after the inner loop: the Z move down and the delimiter
ResumeLayerEnd ==
    /\ IF rs_layer < ResumeLayers - 1
       THEN /\ moved' = [x |-> 0, z |-> ZDelta(HIGH, z_steps_per_layer)]
            /\ z_pos' = ZAfter(ZDelta(HIGH, z_steps_per_layer))
            /\ out' = <<Csv(<<DATA_DELIMITER>>)>>
            /\ delims' = IF delims < 2 THEN delims + 1 ELSE 2
       ELSE /\ moved' = NoMove
            /\ out' = <<>>
            /\ UNCHANGED <<z_pos, delims>>
    /\ rs_layer' = Wrap16(rs_layer + 1)
    /\ rs_step' = 0
    /\ UNCHANGED <<rx, grbl, scanning, paused, paused_layer, paused_step, pc,
                   current_theta_step, last_layer>>

\* the end of RESUME without the "scanning = false" of loop()
ResumeFinishKeepsScanning ==
    /\ IF scanning /\ ~paused
       THEN /\ moved' = [x |-> 0, z |-> returnToHomeDelta]
            /\ z_pos' = ZAfter(returnToHomeDelta)
       ELSE /\ moved' = NoMove
            /\ UNCHANGED z_pos
    /\ out' = IF ~paused THEN <<Txt("SCAN_COMPLETE")>> ELSE <<>>
    /\ pc' = "idle"
    /\ UNCHANGED <<rx, grbl, scanning, paused, paused_layer, paused_step,
                   rs_layer, rs_step, current_theta_step, last_layer, delims>>

\* resumeScan after the layer loop (returnToHome), then the rest of the
\* RESUME handler in loop(): SCAN_COMPLETE and scanning = false
ResumeFinish ==
    /\ IF scanning /\ ~paused
       THEN /\ moved' = [x |-> 0, z |-> returnToHomeDelta]
            /\ z_pos' = ZAfter(returnToHomeDelta)
       ELSE /\ moved' = NoMove
            /\ UNCHANGED z_pos
    /\ out' = IF ~paused THEN <<Txt("SCAN_COMPLETE")>> ELSE <<>>
    /\ scanning' = FALSE
    /\ pc' = "idle"
    /\ UNCHANGED <<rx, grbl, paused, paused_layer, paused_step, rs_layer,
                   rs_step, current_theta_step, last_layer, delims>>

\* one step of a running resumeScan, the sensor handing over one of raws
ResumeScanStep(raws) ==
    /\ pc = "resumeScan"
    /\ IF rs_layer < ResumeLayers /\ scanning /\ ~paused
       THEN IF rs_step < theta_steps_per_rev /\ scanning /\ ~paused
            THEN \E raw \in raws : ResumePoint(raw)
            ELSE ResumeLayerEnd
       ELSE ResumeFinish
    /\ UNCHANGED <<scan_direction_up, step_by_step_mode, scan_current_layer,
                   scan_current_step, config, x_dir, build, rs_start_layer,
                   rs_start_step, cmd, track_z, stopped>>

\* the same, outside an observed run
ResumeStepOn(raws) == ResumeScanStep(raws) /\ UNCHANGED run

ResumeStep == ResumeStepOn(RawReads)

\* the scan commands
Next ==
    \/ Start
    \/ StartDown
    \/ ScanStep
    \/ Stop
    \/ Resume
    \/ ResumeStep
    \/ Config

Spec == Init /\ [][Next]_vars

\* inputs of the specifications in which the measured value plays no part
GoodRead == {[ok |-> TRUE, dist |-> 1200, flux |-> 50]}
ConfigCmdsZ ==
    { Ints(<<4, 2, 1, 1, 0>>) \o <<Num(103), Num(60)>>,
      Ints(<<5, 1, 1, 2, 0>>) }

ScanStepZ == ScanStepOn(GoodRead)
ResumeStepZ == ResumeStepOn(GoodRead)
ConfigZ == ConfigOn(ConfigCmdsZ)

\* the scan commands and the commands that move the Z axis
NextZ ==
    \/ Start
    \/ StartDown
    \/ ScanStepZ
    \/ Stop
    \/ Resume
    \/ ResumeStepZ
    \/ ConfigZ
    \/ Home
    \/ MoveToTop
    \/ RotateZ
    \/ RotateZCcw

SpecZ == InitZ /\ [][NextZ]_vars

\* the scan commands; a handler that has started keeps running: loop() does
\* nothing else until resumeScan returns
NextFair ==
    \/ Start
    \/ StartDown
    \/ ScanStepZ
    \/ Stop
    \/ Resume
    \/ ResumeStepZ
    \/ ConfigZ

SpecFair == Init /\ [][NextFair]_vars /\ WF_vars(ResumeStepZ)

\* a session in which the host never sends START or START_DOWN
NextIdle ==
    \/ Stop
    \/ Resume
    \/ ResumeStep
    \/ Config

SpecIdle == Init /\ [][NextIdle]_vars

\* the scan commands and the commands that turn the X axis
NextX ==
    \/ Start
    \/ StartDown
    \/ ScanStepZ
    \/ Stop
    \/ Resume
    \/ ResumeStepZ
    \/ ConfigZ
    \/ Rotate
    \/ RotateCcw

SpecX == Init /\ [][NextX]_vars

\* the scan commands and the commands that only report, for either build
NextQuery ==
    \/ Start
    \/ ScanStep
    \/ Stop
    \/ Resume
    \/ ResumeStep
    \/ Config
    \/ Test
    \/ TestPoint
    \/ ReadLidar
    \/ GetConfig

SpecQuery == InitBuilds /\ [][NextQuery]_vars

\* the run observer after a command of loop() has been handled
Counted ==
    /\ run_config' =
          IF cmd'.name \in {"START", "START_DOWN"} THEN config'
          ELSE IF config' # config THEN <<>>
          ELSE run_config
    /\ run_complete' =
          IF cmd'.name \in {"START", "START_DOWN"} THEN FALSE
          ELSE IF cmd'.name = "SCAN_STEP" /\ out' = <<Txt("SCAN_COMPLETE")>>
          THEN TRUE
          ELSE run_complete
    /\ n_steps' =
          IF cmd'.name \in {"START", "START_DOWN"} THEN 0
          ELSE IF cmd'.name = "SCAN_STEP" THEN n_steps + 1
          ELSE n_steps
    /\ n_data' =
          IF \/ cmd'.name \in {"START", "START_DOWN"}
             \/ cmd'.name = "RESUME" /\ pc = "idle"
          THEN 0
          ELSE n_data + Cardinality({i \in 1..Len(out') : IsDataLine(out'[i])})
    /\ n_delims' =
          IF \/ cmd'.name \in {"START", "START_DOWN"}
             \/ cmd'.name = "RESUME" /\ pc = "idle"
          THEN 0
          ELSE n_delims
               + Cardinality({i \in 1..Len(out') : IsDelimiter(out'[i])})
    /\ n_x' =
          IF \/ cmd'.name \in {"START", "START_DOWN"}
             \/ cmd'.name = "RESUME" /\ pc = "idle"
             \/ rs_layer' # rs_layer
             \/ \E i \in 1..Len(out') : IsDelimiter(out'[i])
          THEN 0
          ELSE n_x + Abs(moved'.x)

\* commands of a step-by-step run; the configurations have one layer of
\* five points and two layers of four
ConfigCmdsRun ==
    { Ints(<<4, 2, 1, 1, 0>>) \o <<Num(103), Num(60)>>,
      Ints(<<5, 1, 1, 1, 0>>) }

StartRun == Start /\ Counted
StartDownRun == StartDown /\ Counted
ScanStepRun == n_steps < MaxRunSteps /\ ScanStepOn(GoodRead) /\ Counted
ConfigRun == ConfigOn(ConfigCmdsRun) /\ Counted

NextRun ==
    \/ StartRun
    \/ StartDownRun
    \/ ScanStepRun
    \/ ConfigRun

SpecRun == InitRun /\ [][NextRun]_vars

\* the same commands with STOP and RESUME
StopRun == Stop /\ Counted
ResumeRun == Resume /\ Counted

NextAfter ==
    \/ StartRun
    \/ StartDownRun
    \/ ScanStepRun
    \/ ConfigRun
    \/ StopRun
    \/ ResumeRun
    \/ ResumeStepZ

SpecAfter == InitRun /\ [][NextAfter]_vars

\* the continuous scan observed: CONFIG lines for two layers with every
\* pair of theta_steps and steps_per_rev up to the bounds, with the default
\* steps_per_rev and with the largest int
ConfigCmdsRev ==
    { Ints(<<t, 2, 1, 1, 0>>) \o <<Num(103), Num(10 * r)>> :
        t \in MIN_THETA_STEPS_PER_REV..MaxPoints,
        r \in MIN_THETA_STEPS_PER_REV..MaxStepsPerRev }
    \cup { Ints(<<5, 2, 1, 1, 0>>),
           Ints(<<4, 2, 1, 1, 0>>) \o <<Num(103), Num(327670)>> }

ConfigRev == ConfigOn(ConfigCmdsRev) /\ Counted
ResumeStepRun == ResumeScanStep(GoodRead) /\ Counted /\ UNCHANGED track_run

NextRev ==
    \/ ConfigRev
    \/ StopRun
    \/ ResumeRun
    \/ ResumeStepRun

SpecRev == InitRun /\ [][NextRev]_vars

\* the continuous scan with the Z axis observed: RESUME is the only command
\* that moves it
ConfigHome == ConfigOn(ConfigCmdsRev \cup ConfigCmdsZ)

NextHome ==
    \/ ConfigHome
    \/ Stop
    \/ Resume
    \/ ResumeStepZ

SpecHome == InitZ /\ [][NextHome]_vars

\* ------------------------------------------------- EEPROM helpers (GRBL)
RECURSIVE BitAnd(_, _)
\* operator & on bytes
BitAnd(a, b) ==
    IF a = 0 \/ b = 0 THEN 0
    ELSE (a % 2) * (b % 2) + 2 * BitAnd(a \div 2, b \div 2)

RECURSIVE BitXor(_, _)
\* operator ^ on bytes
BitXor(a, b) ==
    IF a = 0 /\ b = 0 THEN 0
    ELSE ((a + b) % 2) + 2 * BitXor(a \div 2, b \div 2)

\* eeprom_put_char that always uses the write-only programming mode
eeprom_put_charWriteOnly(old_value, new_value) == BitAnd(old_value, new_value)

\* eeprom_put_char: the value of the cell after the call.  Erase+write
\* stores the value, erase-only leaves 0xff, write-only can only clear bits
eeprom_put_char(old_value, new_value) ==
    LET diff_mask == BitXor(old_value, new_value)
    IN  IF BitAnd(diff_mask, new_value) # 0
        THEN IF new_value # 255 THEN new_value ELSE 255
        ELSE IF diff_mask # 0
             THEN BitAnd(old_value, new_value)
             ELSE old_value

\* "checksum = (checksum << 1) || (checksum >> 7); checksum += data" on an
\* unsigned char: || is the logical or of the two promoted ints
ChecksumStep(checksum, data) ==
    ((IF checksum * 2 # 0 \/ checksum \div 128 # 0 THEN 1 ELSE 0) + data) % 256

RECURSIVE ChecksumUpTo(_, _)
\* the checksum after the first n bytes of a block
ChecksumUpTo(bytes, n) ==
    IF n = 0 THEN 0 ELSE ChecksumStep(ChecksumUpTo(bytes, n - 1), bytes[n])

\* the checksum both copy loops compute over a block
Checksum(bytes) == ChecksumUpTo(bytes, Len(bytes))

\* a result of memcpy_from_eeprom_with_checksum with the comparison negated
ChecksumResultNegated(checksum, stored) == IF checksum # stored THEN 1 ELSE 0

\* memcpy_from_eeprom_with_checksum: return(checksum == eeprom_get_char(source))
ChecksumResult(checksum, stored) == IF checksum = stored THEN 1 ELSE 0

\* byte values and the blocks made of them
ByteVals == {0, 1, 2, 128, 255}
Blocks == UNION { [1..n -> ByteVals] : n \in 0..MaxBlock }

\* the EEPROM after setup(): every cell holds the same value
InitEeprom ==
    /\ InitSketch
    /\ build = "TF_LUNA"
    /\ track_z = FALSE
    /\ track_run = FALSE
    /\ InitVl53
    /\ InitTwi
    /\ \E v \in {0, 85, 255} : eeprom = [a \in Cells |-> v]
    /\ ee_source = <<>>
    /\ ee_addr = 0
    /\ ee_destination = <<>>
    /\ ee_result = 0
    /\ ee_pc = "none"

\* memcpy_to_eeprom_with_checksum(destination, source, size)
MemcpyToEeprom ==
    /\ ee_pc = "none"
    /\ \E source \in Blocks, destination \in 0..(MaxBlock - 1) :
         LET size == Len(source) IN
         /\ destination + size \in Cells
         /\ eeprom' =
              [a \in Cells |->
                 IF a >= destination /\ a < destination + size
                 THEN eeprom_put_char(eeprom[a], source[a - destination + 1])
                 ELSE IF a = destination + size
                 THEN eeprom_put_char(eeprom[a], Checksum(source))
                 ELSE eeprom[a]]
         /\ ee_source' = source
         /\ ee_addr' = destination
    /\ ee_pc' = "written"
    /\ UNCHANGED <<ee_destination, ee_result, device, rx, vl53, twi>>

\* one stored data byte of the block takes another value
ChangeByte ==
    /\ ee_pc = "written"
    /\ \E a \in Cells, v \in ByteVals :
         /\ a >= ee_addr /\ a < ee_addr + Len(ee_source)
         /\ v # eeprom[a]
         /\ eeprom' = [eeprom EXCEPT ![a] = v]
    /\ ee_pc' = "changed"
    /\ UNCHANGED <<ee_source, ee_addr, ee_destination, ee_result, device, rx,
                   vl53, twi>>

\* memcpy_from_eeprom_with_checksum(destination, source, size) for the
\* address and size of the block written
MemcpyFromEeprom ==
    /\ ee_pc \in {"written", "changed"}
    /\ LET size == Len(ee_source)
           data == [i \in 1..size |-> eeprom[ee_addr + i - 1]]
       IN  /\ ee_destination' = data
           /\ ee_result' = ChecksumResult(Checksum(data), eeprom[ee_addr + size])
    /\ ee_pc' = IF ee_pc = "written" THEN "read" ELSE "read_changed"
    /\ UNCHANGED <<eeprom, ee_source, ee_addr, device, rx, vl53, twi>>

NextEeprom ==
    \/ MemcpyToEeprom
    \/ ChangeByte
    \/ MemcpyFromEeprom

SpecEeprom == InitEeprom /\ [][NextEeprom]_vars

\* ------------------------------------------------------ VL53L0X driver
\* the distances the sensor may hold in its result registers
SensorDistances == {0, 20, 2000, 8189, 8190, 8191, 65535}

\* what an unwritten byte of buffer[12] may hold
StackBytes == {0, 1, 255}

\* the timeouts set by the caller
IoTimeouts == {0, 3, DefaultIoTimeout}

\* vl53l0x_setTimeout(timeout)
SetTimeout ==
    /\ vl_pc \in {"idle", "done"}
    /\ \E timeout \in IoTimeouts :
         /\ timeout # vl53l0x_io_timeout
         /\ vl53l0x_io_timeout' = timeout
    /\ UNCHANGED <<vl53l0x_timeout_flag, vl_pc, vl_timeout, vl_failed, vl_ret,
                   device, rx, eemem, twi>>

\* vl53l0x_readRangeContinuousMillimeters: timeout_limit
timeout_limit ==
    IF vl53l0x_io_timeout < PollLimit THEN vl53l0x_io_timeout ELSE PollLimit

\* i2c_read_register as used by the status poll: 0 when a step of the
\* transaction is not acknowledged, else the register
i2c_read_register(ack, reg) == IF ack THEN reg ELSE 0

\* vl53l0x_readRangeContinuousMillimeters: the value returned for a distance
RangeResult(distance) == IF distance >= OutOfRange THEN OutOfRange ELSE distance

\* vl53l0x_readRangeContinuousMillimeters up to the poll loop: the flag is
\* reset and the start of a single shot is written (its result is ignored)
ReadRangeStart ==
    /\ vl_pc \in {"idle", "done"}
    /\ vl53l0x_timeout_flag' = 0
    /\ \E ack \in BOOLEAN : vl_failed' = ~ack
    /\ vl_timeout' = 0
    /\ vl_pc' = "poll"
    /\ UNCHANGED <<vl53l0x_io_timeout, vl_ret, device, rx, eemem, twi>>

\* one pass of "while (timeout < timeout_limit)", or the timeout exit
ReadRangePoll ==
    /\ vl_pc = "poll"
    /\ IF vl_timeout < timeout_limit
       THEN \E ack \in BOOLEAN, measuring \in {0, 1} :
              LET status == i2c_read_register(ack, measuring) IN
              /\ vl_failed' = (vl_failed \/ ~ack)
              /\ IF status % 2 = 0
                 THEN vl_pc' = "read" /\ UNCHANGED vl_timeout
                 ELSE vl_timeout' = vl_timeout + 1 /\ UNCHANGED vl_pc
              /\ UNCHANGED <<vl53l0x_timeout_flag, vl_ret>>
       ELSE /\ vl53l0x_timeout_flag' = 1
            /\ vl_ret' = 0
            /\ vl_pc' = "done"
            /\ UNCHANGED <<vl_timeout, vl_failed>>
    /\ UNCHANGED <<vl53l0x_io_timeout, device, rx, eemem, twi>>

\* the read of the twelve result bytes and the return.  When the read is
\* not acknowledged i2c_read_register_multi returns before it writes the
\* buffer, and buffer[10], buffer[11] hold what the stack held
ReadRangeResult ==
    /\ vl_pc = "read"
    /\ \E ack \in BOOLEAN :
         /\ vl_failed' = (vl_failed \/ ~ack)
         /\ \E distance \in
                 IF ack THEN SensorDistances
                 ELSE {256 * hi + lo : hi \in StackBytes, lo \in StackBytes} :
              vl_ret' = RangeResult(distance)
    /\ vl_pc' = "done"
    /\ UNCHANGED <<vl53l0x_io_timeout, vl53l0x_timeout_flag, vl_timeout,
                   device, rx, eemem, twi>>

NextVl53 ==
    \/ SetTimeout
    \/ ReadRangeStart
    \/ ReadRangePoll
    \/ ReadRangeResult

SpecVl53 == Init /\ [][NextVl53]_vars

\* ------------------------------------------------- I2C register helpers
\* the four helpers
I2cHelpers ==
    { "i2c_write_register", "i2c_write_register_multi",
      "i2c_read_register", "i2c_read_register_multi" }

\* the bytes a device answers
ReadBytes == {0, 1, 255}

\* where a helper goes next and the value it will return
Goto(at) == [pc |-> at, ret |-> 0]
StopAndReturn(ret) == [pc |-> "stop", ret |-> ret]

\* i2c_write_register after the bus action at `at`, which failed or not
i2c_write_registerStep(at, failed, i, length) ==
    CASE at = "start" -> IF failed THEN StopAndReturn(1) ELSE Goto("reg")
      [] at = "reg" -> IF failed THEN StopAndReturn(1) ELSE Goto("data")
      [] OTHER -> StopAndReturn(IF failed THEN 1 ELSE 0)

\* i2c_write_register_multi after the bus action at `at`
i2c_write_register_multiStep(at, failed, i, length) ==
    CASE at = "start" -> IF failed THEN StopAndReturn(1) ELSE Goto("reg")
      [] at = "reg" ->
           IF failed THEN StopAndReturn(1)
           ELSE IF 0 < length THEN Goto("data") ELSE StopAndReturn(0)
      [] OTHER ->
           IF failed THEN StopAndReturn(1)
           ELSE IF i + 1 < length THEN Goto("data") ELSE StopAndReturn(0)

\* i2c_read_register after the bus action at `at`; the byte read is
\* returned by the read itself (see I2cRead)
i2c_read_registerStep(at, failed, i, length) ==
    CASE at = "start" -> IF failed THEN StopAndReturn(0) ELSE Goto("reg")
      [] at = "reg" -> IF failed THEN StopAndReturn(0) ELSE Goto("restart")
      [] at = "restart" -> IF failed THEN StopAndReturn(0) ELSE Goto("read")
      [] OTHER -> StopAndReturn(0)

\* i2c_read_register_multi with a return on a failed repeated START that
\* leaves out the i2c_stop()
i2c_read_register_multiStepNoStop(at, failed, i, length) ==
    CASE at = "start" -> IF failed THEN StopAndReturn(1) ELSE Goto("reg")
      [] at = "reg" -> IF failed THEN StopAndReturn(1) ELSE Goto("restart")
      [] at = "restart" ->
           IF failed THEN [pc |-> "returned", ret |-> 1]
           ELSE IF 0 < length THEN Goto("read") ELSE StopAndReturn(0)
      [] OTHER -> IF i + 1 < length THEN Goto("read") ELSE StopAndReturn(0)

\* i2c_read_register_multi after the bus action at `at`
i2c_read_register_multiStep(at, failed, i, length) ==
    CASE at = "start" -> IF failed THEN StopAndReturn(1) ELSE Goto("reg")
      [] at = "reg" -> IF failed THEN StopAndReturn(1) ELSE Goto("restart")
      [] at = "restart" ->
           IF failed THEN StopAndReturn(1)
           ELSE IF 0 < length THEN Goto("read") ELSE StopAndReturn(0)
      [] OTHER -> IF i + 1 < length THEN Goto("read") ELSE StopAndReturn(0)

\* the helper being run, after the bus action at i2c_pc
HelperStep(failed) ==
    CASE i2c_fn = "i2c_write_register" ->
           i2c_write_registerStep(i2c_pc, failed, i2c_i, i2c_length)
      [] i2c_fn = "i2c_write_register_multi" ->
           i2c_write_register_multiStep(i2c_pc, failed, i2c_i, i2c_length)
      [] i2c_fn = "i2c_read_register" ->
           i2c_read_registerStep(i2c_pc, failed, i2c_i, i2c_length)
      [] OTHER ->
           i2c_read_register_multiStep(i2c_pc, failed, i2c_i, i2c_length)

\* a caller enters one of the helpers
I2cCall ==
    /\ i2c_pc \in {"idle", "returned"}
    /\ \E fn \in I2cHelpers :
         /\ i2c_fn' = fn
         /\ i2c_length' \in
               IF fn \in {"i2c_write_register", "i2c_read_register"}
               THEN {1} ELSE 0..MaxI2cLength
    /\ i2c_pc' = "start"
    /\ i2c_i' = 0
    /\ i2c_bus' = <<>>
    /\ i2c_ret' = 0
    /\ UNCHANGED <<device, rx, eemem, vl53>>

\* i2c_start / i2c_restart: the START condition, then the address byte
\* when the START got through; either may fail
I2cStart ==
    /\ i2c_pc \in {"start", "restart"}
    /\ \E result \in {"ok", "no_start", "no_ack"} :
         /\ i2c_bus' = i2c_bus \o (IF result = "no_start"
                                    THEN <<"START">>
                                    ELSE <<"START", "SLA">>)
         /\ i2c_pc' = HelperStep(result # "ok").pc
         /\ i2c_ret' = HelperStep(result # "ok").ret
    /\ UNCHANGED <<i2c_fn, i2c_i, i2c_length, device, rx, eemem, vl53>>

\* i2c_write: the register byte or a data byte, acknowledged or not
I2cWrite ==
    /\ i2c_pc \in {"reg", "data"}
    /\ \E ack \in BOOLEAN :
         /\ i2c_bus' = Append(i2c_bus, "WRITE")
         /\ i2c_pc' = HelperStep(~ack).pc
         /\ i2c_ret' = HelperStep(~ack).ret
         /\ i2c_i' = IF i2c_pc = "data" /\ ack THEN i2c_i + 1 ELSE i2c_i
    /\ UNCHANGED <<i2c_fn, i2c_length, device, rx, eemem, vl53>>

\* i2c_read_nack for the only or the last byte, i2c_read_ack otherwise
I2cRead ==
    /\ i2c_pc = "read"
    /\ \E byte \in ReadBytes :
         /\ i2c_bus' =
               Append(i2c_bus,
                      IF \/ i2c_fn = "i2c_read_register"
                         \/ i2c_i = i2c_length - 1
                      THEN "READ_NACK" ELSE "READ_ACK")
         /\ i2c_pc' = HelperStep(FALSE).pc
         /\ i2c_ret' = IF i2c_fn = "i2c_read_register"
                       THEN byte ELSE HelperStep(FALSE).ret
    /\ i2c_i' = i2c_i + 1
    /\ UNCHANGED <<i2c_fn, i2c_length, device, rx, eemem, vl53>>

\* i2c_stop and the return that follows it
I2cStop ==
    /\ i2c_pc = "stop"
    /\ i2c_bus' = Append(i2c_bus, "STOP")
    /\ i2c_pc' = "returned"
    /\ UNCHANGED <<i2c_fn, i2c_i, i2c_length, i2c_ret, device, rx, eemem,
                   vl53>>

NextI2c ==
    \/ I2cCall
    \/ I2cStart
    \/ I2cWrite
    \/ I2cRead
    \/ I2cStop

SpecI2c == Init /\ [][NextI2c]_vars

\* the serial line: the host sends lines at any time, also while a command
\* runs; the receive buffer keeps them in order until loop() reads them
ConfigCmdsSerial == { Ints(<<4, 2, 1, 1, 0>>) \o <<Num(103), Num(60)>> }

SerialLines ==
    { Command(n, <<>>) : n \in {"START", "SCAN_STEP", "STOP", "RESUME"} }
    \cup { Command("CONFIG", p) : p \in ConfigCmdsSerial }

\* a line arrives and is put behind the lines that wait
Arrive ==
    /\ Len(rx) < MaxRx
    /\ \E l \in SerialLines : rx' = Append(rx, l)
    /\ UNCHANGED <<device, grbl>>

ConfigSerial == ConfigOn(ConfigCmdsSerial)

NextSerial ==
    \/ Arrive
    \/ Start
    \/ ScanStepZ
    \/ Stop
    \/ Resume
    \/ ResumeStepZ
    \/ ConfigSerial

SpecSerial == Init /\ [][NextSerial]_vars

\* ======================================================================
\* Properties
\* ======================================================================

StepError == Txt("ERROR: Not in step-by-step scan mode!")

\* C1: right after START (or START_UP) the firmware is scanning upward in
\* step-by-step mode, not paused, with the layer, step, saved position and
\* rotation position all 0, and it has answered SCAN_START; after
\* START_DOWN the same with scan_direction_up false.  Whatever came before.
C1_StartResets ==
    cmd.name \in {"START", "START_DOWN"} =>
        /\ scanning /\ ~paused /\ step_by_step_mode
        /\ scan_direction_up = (cmd.name = "START")
        /\ scan_current_layer = 0 /\ scan_current_step = 0
        /\ paused_layer = 0 /\ paused_step = 0
        /\ current_theta_step = 0
        /\ out = <<Txt("SCAN_START")>>

\* START_DOWN answered after a CONFIG changed the parameters
C1_Witness ==
    /\ cmd.name = "START_DOWN"
    /\ out = <<Txt("SCAN_START")>>
    /\ theta_steps_per_rev # DEFAULT_THETA_STEPS_PER_REV

\* C2: from STOP until the next START or RESUME, scanning is false and
\* paused is true, and every SCAN_STEP is answered with the error line
\* only, steps no motor and leaves scan state, configuration and pins alone.
C2_StopRejectsSteps ==
    /\ [](stopped => (~scanning /\ paused))
    /\ [][(stopped /\ cmd'.name = "SCAN_STEP") =>
              (/\ out' = <<StepError>>
               /\ moved' = NoMove
               /\ UNCHANGED <<scanState, config, pins, zaxis>>)]_vars

\* a SCAN_STEP rejected after STOP interrupted a step-by-step scan
C2_Witness ==
    /\ stopped
    /\ cmd.name = "SCAN_STEP"
    /\ out = <<StepError>>
    /\ step_by_step_mode
    /\ scan_current_step > 0

\* C3: within a scan (since SCAN_START or SCAN_RESUMED) the first data line
\* is of layer 0, a data line is of the same layer as the data line before
\* it with no delimiter between them or of the next layer with exactly one
\* delimiter 9999 between them, a delimiter only follows a data line, and
\* SCAN_COMPLETE is never preceded by a delimiter.
C3_LayerDelimiters ==
    [][\A i \in 1..Len(out') :
         /\ IsDataLine(out'[i]) =>
               \/ last_layer = -1 /\ out'[i].f[1] = 0
               \/ out'[i].f[1] = last_layer /\ delims = 0
               \/ out'[i].f[1] = last_layer + 1 /\ delims = 1
         /\ IsDelimiter(out'[i]) =>
               last_layer # -1 /\ delims = 0 /\ Len(out') = 1
         /\ out'[i] = Txt("SCAN_COMPLETE") => delims = 0]_vars

\* a step-by-step scan of at least two layers has just completed
C3_Witness ==
    /\ cmd.name = "SCAN_STEP"
    /\ out = <<Txt("SCAN_COMPLETE")>>
    /\ last_layer >= 1

\* the data lines in the output of the last step
DataLines == {out[i] : i \in {j \in 1..Len(out) : IsDataLine(out[j])}}

C5_LayerInRange ==
    \A l \in DataLines :
        /\ 0 <= l.f[1]
        /\ l.f[1] <= (z_travel_mm * z_steps_per_mm) \div z_steps_per_layer

\* C6: every data line carries a STEP with 0 <= STEP < theta_steps_per_rev
\* of the configuration in force, also when a CONFIG lowered
\* theta_steps_per_rev between two SCAN_STEPs.
C6_StepInRange ==
    \A l \in DataLines : 0 <= l.f[2] /\ l.f[2] < theta_steps_per_rev

\* a SCAN_STEP closed a layer early: theta_steps_per_rev was lowered below
\* the rotation position the running scan had reached
C6_Witness ==
    /\ cmd.name = "SCAN_STEP"
    /\ Len(out) = 1 /\ IsDelimiter(out[1])
    /\ current_theta_step >= theta_steps_per_rev

\* a read the claim calls failed or rejected: timeout or communication
\* error, distance 0, distance above 1200, strength below 50 (TF-Luna)
ReadRejected(b, raw) ==
    \/ ~raw.ok
    \/ raw.dist = 0
    \/ raw.dist > 1200
    \/ b = "TF_LUNA" /\ raw.flux < 50

\* the step is a command (or a point of resumeScan) run with this read
StepWithRead(raw) ==
    \/ ScanStepOn({raw})
    \/ ResumeStepOn({raw})
    \/ TestOn({raw})
    \/ TestPointOn({raw})
    \/ ReadLidarOn({raw})

\* the distances (in hundredths) printed in the lines o
Distances(o) ==
    {o[i].f[3] : i \in {j \in 1..Len(o) : IsDataLine(o[j])}}
    \cup {o[i].f[1] : i \in {j \in 1..Len(o) :
                                o[j].t \in {"Distance: ", "LIDAR_DISTANCE:"}}}
    \cup {o[i].f[2] : i \in {j \in 1..Len(o) : o[j].t = "TEST_POINT:"}}

C8_HomeReturnsToHome ==
    (track_z /\ cmd.name = "HOME" /\ out = <<Txt("HOME_COMPLETE")>>)
        => z_pos = 0

\* the integer written in a field, as the claim reads it (no 16 bit cut)
ClaimValue(tok) == IF tok.k = "num" THEN CDiv(tok.v, 10) ELSE 0

\* the value the claim reads in field i of a CONFIG line (0 when absent)
ClaimInt(p, i) == IF i <= Len(p) THEN ClaimValue(p[i]) ELSE 0

\* center_distance and steps_per_rev as the claim reads them
ClaimCenter(p) == IF Len(p) >= 6 THEN toFloat(p[6]) ELSE DefaultCenterDist
ClaimStepsPerRev(p) ==
    IF Len(p) >= 7 THEN ClaimValue(p[7]) ELSE DEFAULT_STEPS_PER_REV

\* the condition the claim gives for a CONFIG line to be accepted
ClaimAccept(p) ==
    /\ 4 <= ClaimInt(p, 1) /\ ClaimInt(p, 1) <= 3600
    /\ ClaimInt(p, 1) <= ClaimStepsPerRev(p)
    /\ ClaimInt(p, 2) > 0
    /\ ClaimInt(p, 3) > 0
    /\ ClaimInt(p, 4) > 0
    /\ ClaimInt(p, 5) >= 0
    /\ ClaimCenter(p) > 0
    /\ ClaimStepsPerRev(p) > 0

\* C9: a CONFIG command is answered CONFIG_OK if and only if its values meet
\* the validation condition; in every other case the answer is CONFIG_ERROR.
C9_ConfigValidation ==
    cmd.name = "CONFIG" =>
        /\ IsConfigOk(out[1]) <=> ClaimAccept(cmd.args)
        /\ IsConfigError(out[1]) <=> ~ClaimAccept(cmd.args)

\* C10: a step of CONFIG answered with a CONFIG_ERROR line leaves the seven
\* configuration variables and the scan state as they were; a step answered
\* CONFIG_OK stores all seven values it reports, which are the fields given.
C10_RejectedConfigChangesNothing ==
    [][Config =>
         /\ IsConfigError(out'[1]) \/ IsConfigOk(out'[1])
         /\ IsConfigError(out'[1]) => UNCHANGED <<config, scanState>>
         /\ IsConfigOk(out'[1]) =>
               /\ config' = <<out'[1].f[1], out'[1].f[2], out'[1].f[3],
                              out'[1].f[4], out'[1].f[5], out'[1].f[6],
                              out'[1].f[7]>>
               /\ \A i \in 1..5 : i <= Len(cmd'.args) =>
                                     config'[i] = toInt(cmd'.args[i])
               /\ UNCHANGED scanState]_vars

\* a CONFIG rejected in the middle of a scan whose configuration is not the
\* default one
C10_Witness ==
    /\ cmd.name = "CONFIG"
    /\ IsConfigError(out[1])
    /\ scanning
    /\ scan_current_step > 0
    /\ theta_steps_per_rev # DEFAULT_THETA_STEPS_PER_REV

\* C11: a RESUME that follows the SCAN_STEPs and the STOP of a step-by-step
\* scan enters resumeScan at the layer and step the scan had reached.
C11_ResumeFromSaved ==
    (/\ cmd.name = "RESUME"
     /\ pc = "resumeScan"
     /\ out # <<>>
     /\ out[1] = Txt("SCAN_RESUMED")
     /\ step_by_step_mode)
        => /\ rs_layer = scan_current_layer
           /\ rs_step = scan_current_step

\* the step appends one line to the receive buffer
IsArrival == Len(rx') = Len(rx) + 1 /\ SubSeq(rx', 1, Len(rx)) = rx

StopSent == \E i \in 1..Len(rx) : rx[i].name = "STOP"

\* C13: once a STOP has been sent to a running resumeScan, the scan measures
\* no further point and sends no SCAN_COMPLETE, and it ends paused with
\* paused_layer / paused_step at the layer and step it had reached.
C13_ResponsiveStop ==
    [][(pc = "resumeScan" /\ StopSent /\ rx' = rx) =>
          /\ \A i \in 1..Len(out') :
                ~IsDataLine(out'[i]) /\ out'[i] # Txt("SCAN_COMPLETE")
          /\ pc' = "idle" =>
                paused' /\ paused_layer' = rs_layer /\ paused_step' = rs_step
      ]_vars

\* a checked read has returned
EepromRead == ee_pc \in {"read", "read_changed"}

\* the stored checksum equals the one recomputed over the bytes read
StoredChecksumValid ==
    eeprom[ee_addr + Len(ee_source)] = Checksum(ee_destination)

C15_ChangeDetected == ee_pc = "read_changed" => ee_result = 0

\* C16: a checked read that follows the write of a block, with no EEPROM
\* write in between, copies the bytes written and reports a matching
\* checksum.
C16_RoundTrip ==
    ee_pc = "read" =>
        /\ ee_destination = ee_source
        /\ StoredChecksumValid
        /\ ee_result = 1

\* a block of the longest size, with bits to erase and bits to program,
\* read back
C16_Witness ==
    /\ ee_pc = "read"
    /\ Len(ee_source) = MaxBlock
    /\ ee_source[1] = 128
    /\ ee_destination = ee_source
    /\ \E a \in Cells : eeprom[a] = 85

\* C17: a call of vl53l0x_readRangeContinuousMillimeters returns 0 when it
\* timed out or an I2C transaction of it was not acknowledged, and never a
\* value above 8190.
C17_ZeroOnError ==
    vl_pc = "done" =>
        /\ vl_ret <= 8190
        /\ (vl_failed \/ vl53l0x_timeout_flag = 1) => vl_ret = 0

\* the layer count computed from the configuration
ComputedLayers == LayerCount(z_travel_mm, z_steps_per_mm, z_steps_per_layer)

\* C18: in a run of SCAN_STEPs after START, with the configuration START
\* found (T points, L >= 1 computed layers), the k-th SCAN_STEP, k up to
\* L*(T+1), is answered by the data line of layer (k-1) div (T+1) and step
\* (k-1) mod (T+1) when that step is below T; otherwise by a delimiter, or by
\* SCAN_COMPLETE when the layer is the last one, that is for k = L*(T+1),
\* after L*T data lines and L-1 delimiters.
C18_StepAccounting ==
    LET T == theta_steps_per_rev
        L == ComputedLayers
        k == n_steps
        l == (k - 1) \div (T + 1)
        s == (k - 1) % (T + 1)
    IN  (/\ track_run
         /\ run_config = config
         /\ cmd.name = "SCAN_STEP"
         /\ L >= 1
         /\ k <= L * (T + 1))
            => /\ Len(out) = 1
               /\ IF s < T
                  THEN /\ IsDataLine(out[1])
                       /\ out[1].f[1] = l
                       /\ out[1].f[2] = s
                       /\ n_data = l * T + s + 1
                       /\ n_delims = l
                  ELSE /\ n_data = (l + 1) * T
                       /\ IF l = L - 1
                          THEN /\ out[1] = Txt("SCAN_COMPLETE")
                               /\ k = L * (T + 1)
                               /\ n_data = L * T
                               /\ n_delims = L - 1
                          ELSE /\ IsDelimiter(out[1])
                               /\ n_delims = l + 1

\* the SCAN_COMPLETE of a run of two layers
C18_Witness ==
    /\ track_run
    /\ run_config = config
    /\ ComputedLayers = 2
    /\ cmd.name = "SCAN_STEP"
    /\ out = <<Txt("SCAN_COMPLETE")>>
    /\ n_steps = 2 * (theta_steps_per_rev + 1)
    /\ n_delims = 1

\* C19: once a SCAN_STEP has been answered SCAN_COMPLETE, scanning,
\* step_by_step_mode and paused are false, and until the next START every
\* SCAN_STEP is answered with the error line, RESUME gives no output and no
\* motion, and no further SCAN_COMPLETE is sent.
C19_CompleteOnce ==
    /\ []((/\ track_run
           /\ cmd.name = "SCAN_STEP"
           /\ out = <<Txt("SCAN_COMPLETE")>>)
              => (~scanning /\ ~step_by_step_mode /\ ~paused))
    /\ [][run_complete =>
            /\ ScanStepRun => out' = <<StepError>>
            /\ ResumeRun => out' = <<>> /\ moved' = NoMove
            /\ (StopRun \/ ResumeRun \/ ResumeStepZ \/ ScanStepRun \/ ConfigRun)
                  => \A i \in 1..Len(out') : out'[i] # Txt("SCAN_COMPLETE")
         ]_vars

\* C20: when a SCAN_STEP of a step-by-step run closes a layer with a
\* delimiter, the X motor steps issued since the previous delimiter (or
\* since START) sum to steps_per_rev.
C20_LayerIsOneRevolution ==
    [][(/\ ScanStepRun
        /\ run_config = config
        /\ out' # <<>>
        /\ IsDelimiter(out'[1]))
          => n_x = steps_per_rev]_vars

\* the steps performScan gives to the points lo..hi of a layer
RECURSIVE PerformScanSteps(_, _)
PerformScanSteps(lo, hi) ==
    IF lo > hi THEN 0
    ELSE IF lo = hi THEN PerformScanStepsThisPoint(lo)
    ELSE LET mid == (lo + hi) \div 2
         IN  PerformScanSteps(lo, mid) + PerformScanSteps(mid + 1, hi)

\* the configuration is one the claim speaks of
OnePerPoint == 1 <= theta_steps_per_rev /\ theta_steps_per_rev <= steps_per_rev

\* C21: when theta_steps_per_rev <= steps_per_rev, the X motor steps
\* resumeScan has issued for a layer, when it leaves the layer, sum to
\* steps_per_rev and every point of the layer got at least one step; the
\* step counts of performScan for the points of a layer do the same.
C21_ExactRevolution ==
    /\ [][(ResumeStepRun /\ OnePerPoint) =>
            /\ (rs_layer' # rs_layer /\ rs_start_step = 0)
                  => n_x = steps_per_rev
            /\ (out' # <<>> /\ IsDataLine(out'[1])) => Abs(moved'.x) >= 1
         ]_vars
    /\ [](OnePerPoint =>
            /\ PerformScanSteps(0, theta_steps_per_rev - 1) = steps_per_rev
            /\ \A step \in 0..(theta_steps_per_rev - 1) :
                   PerformScanStepsThisPoint(step) >= 1)

\* C21 witness: resumeScan has turned all points of a layer, with a
\* remainder to distribute, and the steps sum to steps_per_rev
C21_Witness ==
    /\ pc = "resumeScan"
    /\ rs_step = theta_steps_per_rev
    /\ rs_layer = 1
    /\ CMod(steps_per_rev, theta_steps_per_rev) > 0
    /\ n_x = steps_per_rev

\* C22: every X motor move made by a scan command (SCAN_STEP, RESUME) is
\* clockwise: X_DIR_PIN is LOW when rotateMotorX runs, so the signed
\* rotation of the step is not negative.
C22_ScanTurnsClockwise ==
    (cmd.name \in {"SCAN_STEP", "RESUME"}) => moved.x >= 0

\* C23: in a scan that START or START_DOWN began (and that no SCAN_STEP has
\* completed), every layer advance, the Z move that comes with a delimiter
\* line of SCAN_STEP or of RESUME, moves z_steps_per_layer up after START
\* and z_steps_per_layer down after START_DOWN.
C23_LayerAdvanceDirection ==
    (/\ run_config # <<>>
     /\ ~run_complete
     /\ cmd.name \in {"SCAN_STEP", "RESUME"}
     /\ out = <<Csv(<<DATA_DELIMITER>>)>>)
        => moved.z = ZDelta(IF scan_direction_up THEN LOW ELSE HIGH,
                            z_steps_per_layer)

\* C24: the ANGLE of every data line, whichever scan command printed it, is
\* STEP * 360 / theta_steps_per_rev (printed with one decimal) for the STEP
\* of the same line, so that step 0 is at angle 0.
C24_AngleFromStep ==
    \A i \in 1..Len(out) :
        IsDataLine(out[i]) =>
            out[i].f[4] = AngleTenths(out[i].f[2], theta_steps_per_rev)

\* C25: whenever loop() waits for a command, current_theta_step is a point
\* index: 0 <= current_theta_step < theta_steps_per_rev.
C25_ThetaStepInRange ==
    pc = "idle" =>
        (0 <= current_theta_step /\ current_theta_step < theta_steps_per_rev)

\* C26: whenever loop() waits for the next command, scanning and paused
\* are not both true.
C26_NotScanningAndPaused ==
    pc = "idle" => ~(scanning /\ paused)

\* C26 witness: STOP has paused a step-by-step scan that had printed points
C26_Witness ==
    /\ pc = "idle"
    /\ cmd.name = "STOP"
    /\ paused
    /\ ~scanning
    /\ step_by_step_mode
    /\ scan_current_step > 0

C28_ResumeOnlyContinues ==
    cmd.name = "RESUME" => (out = <<>> /\ moved = NoMove)

\* C29: the net Z displacement of a whole RESUME command started at
\* position (0,0) is zero.  In a session in which only RESUME moves the Z
\* axis: whenever loop() waits for a command the axis is where it was at
\* power-up.
C29_ResumeReturnsHome ==
    pc = "idle" => z_pos = 0

\* the configuration is the default one of the Z axis
DefaultZ ==
    /\ z_travel_mm = DEFAULT_Z_TRAVEL_MM
    /\ z_steps_per_mm = DEFAULT_Z_STEPS_PER_MM
    /\ z_steps_per_layer = DEFAULT_Z_STEPS_PER_LAYER

\* C30: with the default configuration the layer count computed by the
\* firmware is 100: performScanStep completes the scan after 100 layers and
\* MOVE_TO_TOP and HOME move the Z axis by 100 layers.
C30_DefaultLayerCount ==
    DefaultZ =>
        /\ StepLayers = 100
        /\ TotalZSteps = 100
        /\ cmd.name = "MOVE_TO_TOP" => moved.z = 100 * DEFAULT_Z_STEPS_PER_LAYER
        /\ cmd.name = "HOME" => moved.z = -(100 * DEFAULT_Z_STEPS_PER_LAYER)

\* the STOP conditions among the bus actions of the call
Stops == {k \in 1..Len(i2c_bus) : i2c_bus[k] = "STOP"}

\* C31: when an I2C register helper has returned, it has issued exactly one
\* STOP condition and that was its last bus action, whichever bus action
\* failed; while it runs it has issued none.
C31_BusReleased ==
    /\ i2c_pc = "returned" =>
          /\ Cardinality(Stops) = 1
          /\ i2c_bus[Len(i2c_bus)] = "STOP"
    /\ i2c_pc \notin {"idle", "returned"} => Stops = {}

\* C31 witness: i2c_read_register_multi has returned 1 after a repeated
\* START that failed
C31_Witness ==
    /\ i2c_fn = "i2c_read_register_multi"
    /\ i2c_pc = "returned"
    /\ i2c_ret = 1
    /\ i2c_bus = <<"START", "SLA", "WRITE", "START", "STOP">>

====
